---- MODULE Spec2Model ----
(***************************************************************************)
(* Model of Transcriber.py: the per-file pipeline of process_audio_file,   *)
(* the batch loop of main, and the CSV run log (init_log_file, update_log, *)
(* update_log_field).                                                      *)
(*                                                                         *)
(* Text is modelled as Python models it: a str is a sequence of Unicode    *)
(* code points (natural numbers), so that len, lower, slicing, find,       *)
(* split, endswith and the ordering used by sorted are computed and not    *)
(* assumed.  The Japanese literals of the source appear here as their code *)
(* points, with a romanised reading in the comment next to each.           *)
(***************************************************************************)
EXTENDS Integers, Sequences, FiniteSets, TLC

----------------------------------------------------------------------------
(* Bounds of the model *)

MaxDuration == 12      \* SpecSeg: largest track duration tried
MaxInterval == 6       \* SpecSeg: largest chunk size tried
MaxLogOps == 3         \* SpecLog: run-log operations applied in one behaviour
TicksPerSecond == 2    \* ticks of the clock per second of strftime's %S
MaxSummaryLen == 4     \* SpecFmt: longest summary text formatted

----------------------------------------------------------------------------
(* Literals of the source *)

\* "transcription_log.csv" header (init_log_file): file name, start time,
\* end time, processing status, characters, summary characters, "Slack" + sent
H_filename == <<12501, 12449, 12452, 12523, 21517>>
H_start == <<38283, 22987, 26178, 21051>>
H_end == <<32066, 20102, 26178, 21051>>
H_status == <<20966, 29702, 12473, 12486, 12540, 12479, 12473>>
H_textlen == <<25991, 23383, 25968>>
H_sumlen == <<35201, 32004, 25991, 23383, 25968>>
H_slack == <<83, 108, 97, 99, 107, 36865, 20449>>
LogHeader == <<H_filename, H_start, H_end, H_status, H_textlen, H_sumlen, H_slack>>

\* "slack_status": the field name process_audio_file passes to update_log_field
F_slack_status == <<115, 108, 97, 99, 107, 95, 115, 116, 97, 116, 117, 115>>

S_done == <<23436, 20102>>                      \* "kanryou" (completed)
S_error_prefix == <<12456, 12521, 12540, 58, 32>>  \* "era-: " (error: )
N_unsent == <<26410, 36865, 20449>>             \* "misoushin" (not sent)
N_sent == <<25104, 21151>>                      \* "seikou" (success)
N_failed == <<22833, 25943>>                    \* "shippai" (failure)
N_error == <<12456, 12521, 12540>>              \* "era-" (error)

M_gpt4o == <<103, 112, 116, 45, 52, 111>>       \* "gpt-4o"
M_gpt35 == <<103, 112, 116, 45, 51, 46, 53, 45, 116, 117, 114, 98, 111>>  \* "gpt-3.5-turbo"
M_failed == N_failed                            \* model_used = "shippai"
\* "youyaku ni shippai shimashita. mojiokoshi nomi goriyou kudasai."
DegradedMessage == <<35201, 32004, 12395, 22833, 25943, 12375, 12414, 12375, 12383, 12290, 25991, 23383, 36215, 12371, 12375, 12398, 12415, 12372, 21033, 29992, 12367, 12384, 12373, 12356, 12290>>

ParagraphSep == <<10, 10>>                      \* "\n\n"
Ellipsis == <<46, 46, 46>>                      \* "..."
TxtSuffix == <<95, 25991, 23383, 36215, 12371, 12375, 46, 116, 120, 116>>  \* "_mojiokoshi.txt"
DocxSuffix == <<95, 35696, 20107, 37682, 46, 100, 111, 99, 120>>           \* "_gijiroku.docx"
audio_extensions == << <<46, 109, 112, 51>>, <<46, 119, 97, 118>>, <<46, 109, 52, 97>>, <<46, 109, 112, 52>> >>
PlaceholderWebhook == <<104, 116, 116, 112, 115, 58, 47, 47, 104, 111, 111, 107, 115, 46, 115, 108, 97, 99, 107, 46, 99, 111, 109, 47, 115, 101, 114, 118, 105, 99, 101, 115, 47, 88, 88, 88, 47, 89, 89, 89, 47, 90, 90, 90>>

DefaultInterval == 300000     \* interval=5*60*1000 (milliseconds)
ExcerptLimit == 200           \* summary_text[:200]
OpenBracket == 12304          \* left lenticular bracket
CloseBracket == 12305         \* right lenticular bracket

----------------------------------------------------------------------------
(* Python str and os.path operations *)

Min(a, b) == IF a < b THEN a ELSE b

\* str.lower on one code point (ASCII letters are the only cased ones used)
LowerChar(c) == IF c >= 65 /\ c <= 90 THEN c + 32 ELSE c

\* str.lower
Lower(s) == [k \in 1..Len(s) |-> LowerChar(s[k])]

\* s[a:b] with 0-based Python indices, clipped to the string
Slice(s, a, b) == SubSeq(s, a + 1, Min(b, Len(s)))

\* str.endswith
EndsWith(s, suf) ==
    /\ Len(suf) <= Len(s)
    /\ SubSeq(s, Len(s) - Len(suf) + 1, Len(s)) = suf

\* str.find(c): 0-based index of the first occurrence, -1 if none
Find(s, c) ==
    IF \E k \in 1..Len(s) : s[k] = c
    THEN (CHOOSE k \in 1..Len(s) : s[k] = c /\ \A j \in 1..(k - 1) : s[j] # c) - 1
    ELSE -1

\* the ordering of str that sorted() uses: lexicographic by code point
StrLess(a, b) ==
    \E k \in 1..(Min(Len(a), Len(b)) + 1) :
        /\ \A j \in 1..(k - 1) : a[j] = b[j]
        /\ \/ k = Len(a) + 1 /\ k <= Len(b)
           \/ k <= Len(a) /\ k <= Len(b) /\ a[k] < b[k]

\* str(n) for n >= 0
RECURSIVE Str(_)
Str(n) == IF n < 10 THEN <<48 + n>> ELSE Str(n \div 10) \o <<48 + (n % 10)>>

\* os.path.basename (POSIX separator)
Basename(p) ==
    LET slashes == {k \in 1..Len(p) : p[k] = 47}
    IN  IF slashes = {} THEN p
        ELSE SubSeq(p, (CHOOSE k \in slashes : \A j \in slashes : j <= k) + 1, Len(p))

\* os.path.splitext(p)[0]: cut at the last dot unless only dots precede it
SplitextRoot(p) ==
    LET dots == {k \in 1..Len(p) : p[k] = 46}
        last == CHOOSE k \in dots : \A j \in dots : j <= k
    IN  IF dots # {} /\ (\E j \in 1..(last - 1) : p[j] # 46 /\ p[j] # 47)
        THEN SubSeq(p, 1, last - 1)
        ELSE p

\* sorted(names)
RECURSIVE Sorted(_)
Sorted(names) ==
    IF names = {} THEN <<>>
    ELSE LET least == CHOOSE n \in names : \A m \in names \ {n} : StrLess(n, m)
         IN  <<least>> \o Sorted(names \ {least})

\* datetime.strftime("%Y-%m-%d %H:%M:%S"): the sub-second part is dropped; the
\* calendar rendering of the whole second is written as its decimal number
Strftime(t) == Str(t \div TicksPerSecond)

\* '%Y-%m-%d %H:%M' of the minutes document: resolution of one minute
StrftimeMinute(t) == Str(t \div (60 * TicksPerSecond))

\* str.isspace on one code point
IsSpace(c) ==
    c \in ({9, 10, 11, 12, 13, 28, 29, 30, 31, 32, 133, 160, 5760, 8232, 8233, 8239, 8287, 12288}
           \cup (8192..8202))

\* line.strip() == ""
IsBlank(line) == \A k \in 1..Len(line) : IsSpace(line[k])

\* str.split("\n")
RECURSIVE SplitLines(_)
SplitLines(s) ==
    LET nl == Find(s, 10)
    IN  IF nl = -1 THEN <<s>>
        ELSE <<Slice(s, 0, nl)>> \o SplitLines(Slice(s, nl + 1, Len(s)))

----------------------------------------------------------------------------
(* AudioSegmenter: [audio[i:i+interval] for i in range(0, len(audio), interval)] *)

\* list(range(i, D, C)) for C > 0
RECURSIVE RangeFrom(_, _, _)
RangeFrom(i, D, C) == IF i >= D THEN <<>> ELSE <<i>> \o RangeFrom(i + C, D, C)

\* a slice audio[a:b] of a track of length D covers [a, min(b, D))
SliceUnclipped(D, a, b) == [start |-> a, stop |-> b]
AudioSlice(D, a, b) == [start |-> a, stop |-> Min(b, D)]

Segments(D, C) ==
    LET starts == RangeFrom(0, D, C)
    IN  [k \in 1..Len(starts) |-> AudioSlice(D, starts[k], starts[k] + C)]

----------------------------------------------------------------------------
(* TranscriptionEngine: all_text += result["text"] + "\n\n" *)

AppendTextNoSep(all_text, text) == all_text \o text
AppendText(all_text, text) == all_text \o text \o ParagraphSep

----------------------------------------------------------------------------
(* Summarizer: the nested try/except over gpt-4o, then gpt-3.5-turbo.      *)
(* A backend reply is [ok |-> BOOLEAN, content |-> str]; ok = FALSE stands *)
(* for client.chat.completions.create raising.                             *)

SummarizeEmptyOnFailure(r4o, r35) ==
    IF r4o.ok
    THEN [summary_text |-> r4o.content, model_used |-> M_gpt4o, called |-> <<M_gpt4o>>]
    ELSE IF r35.ok
    THEN [summary_text |-> r35.content, model_used |-> M_gpt35, called |-> <<M_gpt4o, M_gpt35>>]
    ELSE [summary_text |-> <<>>, model_used |-> M_failed, called |-> <<M_gpt4o, M_gpt35>>]
SummarizeNoFallback(r4o, r35) ==
    IF r4o.ok
    THEN [summary_text |-> r4o.content, model_used |-> M_gpt4o, called |-> <<M_gpt4o>>]
    ELSE [summary_text |-> DegradedMessage, model_used |-> M_failed, called |-> <<M_gpt4o>>]
Summarize(r4o, r35) ==
    IF r4o.ok
    THEN [summary_text |-> r4o.content, model_used |-> M_gpt4o, called |-> <<M_gpt4o>>]
    ELSE IF r35.ok
    THEN [summary_text |-> r35.content, model_used |-> M_gpt35, called |-> <<M_gpt4o, M_gpt35>>]
    ELSE [summary_text |-> DegradedMessage, model_used |-> M_failed, called |-> <<M_gpt4o, M_gpt35>>]

----------------------------------------------------------------------------
(* MinutesFormatter: one paragraph per line of the summary; a paragraph is *)
(* the sequence of its runs [text, bold]                                   *)

\* p.add_run(line) for every line that is not blank
FormatLinePlain(line) ==
    IF IsBlank(line) THEN <<>> ELSE << [text |-> line, bold |-> FALSE] >>

\* lines 191-206: the runs of the paragraph added for one line
FormatLine(line) ==
    IF IsBlank(line) THEN <<>>
    ELSE IF (\E k \in 1..Len(line) : line[k] = OpenBracket)
            /\ (\E k \in 1..Len(line) : line[k] = CloseBracket)
    THEN LET start_idx == Find(line, OpenBracket)
             end_idx == Find(line, CloseBracket) + 1
         IN  IF start_idx = 0
             THEN IF end_idx < Len(line)
                  THEN << [text |-> Slice(line, 0, end_idx), bold |-> TRUE],
                          [text |-> Slice(line, end_idx, Len(line)), bold |-> FALSE] >>
                  ELSE << [text |-> Slice(line, 0, end_idx), bold |-> TRUE] >>
             ELSE << [text |-> line, bold |-> FALSE] >>
    ELSE << [text |-> line, bold |-> FALSE] >>

\* the document built between Document() and doc.save
BuildDocument(file_path, created, model_used, summary_text) ==
    LET lines == SplitLines(summary_text)
    IN  [created |-> StrftimeMinute(created),
         source |-> Basename(file_path),
         model_used |-> model_used,
         body |-> [k \in 1..Len(lines) |-> FormatLine(lines[k])]]

\* summary_text[:200] + "..." if len(summary_text) > 200 else summary_text
Excerpt(summary_text) ==
    IF Len(summary_text) > ExcerptLimit
    THEN Slice(summary_text, 0, ExcerptLimit) \o Ellipsis
    ELSE summary_text

----------------------------------------------------------------------------
(* RunLog: transcription_log.csv.  The file is [exists, lines]; lines is   *)
(* the sequence of CSV rows, the header row first; a row is the sequence   *)
(* of its fields, each a str (csv.writer writes str(x) of every field).    *)

NoFile == [exists |-> FALSE, lines |-> <<>>]

\* open(log_file, "w") without the test of line 286
InitLogFileOverwrite(f) == [exists |-> TRUE, lines |-> <<LogHeader>>]
\* init_log_file
InitLogFile(f) ==
    IF ~f.exists THEN [exists |-> TRUE, lines |-> <<LogHeader>>] ELSE f

\* the row update_log writes
LogRow(file_path, start_time, end_time, status, text_length, summary_length, slack_status) ==
    << Basename(file_path), Strftime(start_time), Strftime(end_time), status,
       Str(text_length), Str(summary_length), slack_status >>

\* update_log: open(..., "a") creates the file if needed and appends one row
UpdateLog(f, row) == [exists |-> TRUE, lines |-> f.lines \o <<row>>]

\* the index (0-based) update_log_field finds for field, -1 for None
FieldIndex(headers, field) ==
    IF \E k \in 1..Len(headers) : Lower(headers[k]) = Lower(field)
    THEN (CHOOSE k \in 1..Len(headers) :
            /\ Lower(headers[k]) = Lower(field)
            /\ \A j \in 1..(k - 1) : Lower(headers[j]) # Lower(field)) - 1
    ELSE -1

\* row[field_index] = value for the rows whose first field is the key
SetFieldAllRows(row, key, idx, value) == [row EXCEPT ![idx + 1] = value]
SetField(row, key, idx, value) ==
    IF row[1] = key THEN [row EXCEPT ![idx + 1] = value] ELSE row

\* lines 333-335: the field is in no header; return False before any write
FieldNotFoundSilent(f) == [ok |-> TRUE, file |-> f]
FieldNotFound(f) == [ok |-> FALSE, file |-> f]

\* update_log_field: [ok |-> the value returned, file |-> the file afterwards]
UpdateLogField(f, file_path, field, value) ==
    IF ~f.exists \/ f.lines = <<>>
    THEN [ok |-> FALSE, file |-> f]            \* open or next(reader) raises
    ELSE LET headers == f.lines[1]
             idx == FieldIndex(headers, field)
             key == Basename(file_path)
             body == SubSeq(f.lines, 2, Len(f.lines))
         IN  IF idx = -1
             THEN FieldNotFound(f)
             ELSE IF \E k \in 1..Len(body) :
                        \/ Len(body[k]) = 0
                        \/ body[k][1] = key /\ Len(body[k]) < idx + 1
             THEN [ok |-> FALSE, file |-> f]   \* IndexError before the rewrite
             ELSE [ok |-> TRUE,
                   file |-> [exists |-> TRUE,
                             lines |-> <<headers>> \o
                                 [k \in 1..Len(body) |-> SetField(body[k], key, idx, value)]]]

\* update_log_field in its two halves.  Lines 323-341, the first `with`:
\* what the call holds when the file has been read and closed
ReadRows(f, file_path, field, value) ==
    IF ~f.exists \/ f.lines = <<>>
    THEN [found |-> FALSE, headers |-> <<>>, rows |-> <<>>]
    ELSE LET headers == f.lines[1]
             idx == FieldIndex(headers, field)
             key == Basename(file_path)
             body == SubSeq(f.lines, 2, Len(f.lines))
         IN  IF \/ idx = -1
                \/ \E k \in 1..Len(body) :
                     \/ Len(body[k]) = 0
                     \/ body[k][1] = key /\ Len(body[k]) < idx + 1
             THEN [found |-> FALSE, headers |-> headers, rows |-> <<>>]
             ELSE [found |-> TRUE, headers |-> headers,
                   rows |-> [k \in 1..Len(body) |-> SetField(body[k], key, idx, value)]]

\* open(log_file, "w") and a write of the header only
WriteRowsHeaderOnly(headers, rows) == [exists |-> TRUE, lines |-> <<headers>>]

\* lines 343-347, the second `with`: the file is rewritten from the header
\* and the rows held
WriteRows(headers, rows) == [exists |-> TRUE, lines |-> <<headers>> \o rows]

----------------------------------------------------------------------------
(* Inputs the environment supplies *)

Name_B_MP3 == <<66, 46, 77, 80, 51>>      \* "B.MP3"
Name_a_wav == <<97, 46, 119, 97, 118>>    \* "a.wav"
Name_c_txt == <<99, 46, 116, 120, 116>>   \* "c.txt"

\* contents of the working directory when main lists it
DirectoryListings == { {Name_c_txt}, {Name_a_wav, Name_c_txt}, {Name_a_wav, Name_B_MP3, Name_c_txt} }

\* SLACK_WEBHOOK_URL: unset (None), the placeholder of .env, or a real address
RealWebhook == <<104, 116, 116, 112, 115, 58, 47, 47, 104, 47, 119>>   \* "https://h/w"
WebhookSettings == { <<>>, PlaceholderWebhook, RealWebhook }

\* len(audio) in milliseconds: an empty track, 2 minutes, 7 minutes
Durations == {0, 120000, 420000}

\* result["text"] of one segment: "" (silence) or "ab"
SegTexts == { <<>>, <<97, 98>> }

\* what client.chat.completions.create does for each backend: it raises
\* (ok = FALSE) or answers with response.choices[0].message.content
\*   gpt-4o:         "[gi]x" newline "" newline " y[z]"  (lenticular brackets)
\*   gpt-3.5-turbo:  "p"
Reply_minutes == <<12304, 35696, 12305, 120, 10, 10, 32, 121, 12304, 122, 12305>>
Reply_plain == <<112>>
BackendFailure == [ok |-> FALSE, content |-> <<>>]
Replies4o == { BackendFailure, [ok |-> TRUE, content |-> Reply_minutes] }
Replies35 == { BackendFailure, [ok |-> TRUE, content |-> Reply_plain] }

\* str(e) of the exceptions raised inside process_audio_file
E_decode == <<100, 101, 99>>     \* AudioSegment.from_file failed ("dec")
E_asr == <<97, 115, 114>>        \* model.transcribe failed ("asr")
E_io == <<105, 111>>             \* open/write/doc.save failed ("io")

\* what happens inside the try block of the Slack notification:
\* the POST answers 200, answers 204, answers a status outside the 200 range,
\* requests.post raises,
\* or an exception is raised while the message is built
NotifyOutcomes == {"200", "204", "non200", "transport", "raise"}

\* a row left in the log by an earlier run over the same directory
PriorRow == LogRow(Name_a_wav, 0, 0, S_done, 3, 1, N_unsent)
InitialLogs == { NoFile, [exists |-> TRUE, lines |-> <<LogHeader, PriorRow>>] }

----------------------------------------------------------------------------
(* State *)

VARIABLES
    listing,          \* os.listdir("."): the names main discovers inputs among
    slack_webhook,    \* SLACK_WEBHOOK_URL
    log,              \* transcription_log.csv
    fs,               \* output files written: path -> content
    chunks,           \* i such that chunk_<i>.mp3 exists
    now,              \* datetime.now(), in clock ticks
    pc,               \* position of the single control thread
    audio_files,      \* main: the discovered inputs, sorted
    n,                \* main: 1-based position of the for loop
    successful_files, \* main
    results,          \* main: what process_audio_file returned, per file
    file_path, interval, start_time, end_time, duration, segments, i,
    all_text, summary_text, model_used, exc, success,   \* process_audio_file
    trace,            \* effects of the current process_audio_file call, in order
    called,           \* backends the current call requested, in order
    posted,           \* messages the current call POSTed, in order
    field_updates,    \* update_log_field calls of the current call, in order
    seg_texts,        \* what model.transcribe returned in the current call, in order
    replies,          \* the backends' answers in the current call, up to the first success
    last_op,          \* SpecLog: the run-log operation applied last
    ops_done,         \* SpecLog: operations applied so far
    proc              \* SpecConc: the state of each of the two pipelines

world == <<listing, slack_webhook, log, fs, chunks, now>>
mainv == <<audio_files, n, successful_files, results>>
locals == <<file_path, interval, start_time, end_time, duration, segments, i,
            all_text, summary_text, model_used, exc, success>>
history == <<trace, called, posted, field_updates, seg_texts, replies>>
logspec == <<last_op, ops_done, proc>>
vars == <<world, pc, mainv, locals, history, logspec>>

NoOp == [op |-> "none", key |-> <<>>, field |-> <<>>, value |-> <<>>, ok |-> FALSE,
         before |-> NoFile]

\* the frame of a process_audio_file call before its first statement
FreshLocals ==
    /\ file_path = <<>> /\ interval = DefaultInterval
    /\ start_time = -1 /\ end_time = -1 /\ duration = 0
    /\ segments = <<>> /\ i = 0 /\ all_text = <<>> /\ summary_text = <<>>
    /\ model_used = <<>> /\ exc = <<>> /\ success = FALSE
    /\ trace = <<>> /\ called = <<>> /\ posted = <<>> /\ field_updates = <<>>
    /\ seg_texts = <<>> /\ replies = <<>>

Init ==
    /\ listing \in DirectoryListings
    /\ slack_webhook \in WebhookSettings
    /\ log \in InitialLogs
    /\ fs = <<>> /\ chunks = {} /\ now = 0
    /\ pc = "initialize"
    /\ audio_files = <<>> /\ n = 0 /\ successful_files = 0 /\ results = <<>>
    /\ FreshLocals
    /\ last_op = NoOp /\ ops_done = 0 /\ proc = <<>>

----------------------------------------------------------------------------
(* main: start-up *)

\* initialize(): the part that touches the run log is init_log_file()
Initialize ==
    /\ pc = "initialize"
    /\ log' = InitLogFile(log)
    /\ pc' = "load_model"
    /\ UNCHANGED <<listing, slack_webhook, fs, chunks, now, mainv, locals, history, logspec>>

\* load_whisper_model("small"); None ends the program with sys.exit(1)
LoadModel ==
    /\ pc = "load_model"
    /\ \E loaded \in BOOLEAN : pc' = IF loaded THEN "discover" ELSE "exit"
    /\ UNCHANGED <<world, mainv, locals, history, logspec>>

\* any(file.lower().endswith(ext) for ext in audio_extensions)
IsAudio(file) ==
    \E k \in 1..Len(audio_extensions) : EndsWith(Lower(file), audio_extensions[k])

\* the audio_files list main builds from sorted(os.listdir("."))
DiscoverFiles(names) == SelectSeq(Sorted(names), IsAudio)

Discover ==
    /\ pc = "discover"
    /\ audio_files' = DiscoverFiles(listing)
    /\ IF audio_files' = <<>>
       THEN pc' = "exit" /\ n' = n              \* sys.exit(0)
       ELSE pc' = "call" /\ n' = 1
    /\ UNCHANGED <<world, successful_files, results, locals, history, logspec>>

----------------------------------------------------------------------------
(* process_audio_file(file, model, openai_key, slack_webhook)              *)
(*                                                                         *)
(* One action per stage of the function.  The calls that can raise are the *)
(* ones section 7 of the specification names: decoding the audio,          *)
(* model.transcribe on a segment, writing the transcript, saving the       *)
(* minutes document; each backend call may raise, and the notification may *)
(* fail in the POST or raise while its message is built.  Appending to the *)
(* run log is taken to succeed (update_log swallows its own exceptions).   *)

\* lines 102-113: start time, decode, split
Begin ==
    /\ pc = "call"
    /\ file_path' = audio_files[n]
    /\ interval' = DefaultInterval
    /\ start_time' = now
    /\ \E decoded \in BOOLEAN :
         IF decoded
         THEN \E D \in Durations :
                /\ duration' = D
                /\ segments' = Segments(D, interval')
                /\ pc' = IF Len(segments') = 0 THEN "write_txt" ELSE "segment"
                /\ exc' = exc
         ELSE /\ exc' = E_decode
              /\ pc' = "except"
              /\ UNCHANGED <<duration, segments>>
    /\ i' = 0 /\ all_text' = <<>>
    /\ UNCHANGED <<world, mainv, end_time, summary_text, model_used, success, history, logspec>>

\* what one pass of the for loop leaves of chunk_<i>.mp3 when transcribe returned
AfterSegment(files, k) == (files \cup {k}) \ {k}

\* lines 117-129: one pass of the loop over the segments
TranscribeSegment ==
    /\ pc = "segment"
    /\ i < Len(segments)
    /\ \E transcribed \in BOOLEAN :
         IF transcribed
         THEN \E text \in SegTexts :
                /\ all_text' = AppendText(all_text, text)
                /\ seg_texts' = Append(seg_texts, text)
                /\ chunks' = AfterSegment(chunks, i)
                /\ i' = i + 1
                /\ pc' = IF i + 1 = Len(segments) THEN "write_txt" ELSE "segment"
                /\ exc' = exc
         ELSE /\ chunks' = chunks \cup {i}       \* exported, never removed
              /\ exc' = E_asr
              /\ pc' = "except"
              /\ UNCHANGED <<all_text, i, seg_texts>>
    /\ trace' = Append(trace, "transcribe")
    /\ UNCHANGED <<listing, slack_webhook, log, fs, now, mainv, file_path, interval,
                   start_time, end_time, duration, segments, summary_text, model_used,
                   success, called, posted, field_updates, replies, logspec>>

TxtPath(path) == SplitextRoot(path) \o TxtSuffix
DocxPath(path) == SplitextRoot(path) \o DocxSuffix

\* lines 131-134: the transcript file
WriteTranscript ==
    /\ pc = "write_txt"
    /\ \E written \in BOOLEAN :
         IF written
         THEN /\ fs' = (TxtPath(file_path) :> all_text) @@ fs
              /\ trace' = Append(trace, "txt")
              /\ pc' = "summarize"
              /\ exc' = exc
         ELSE /\ exc' = E_io
              /\ pc' = "except"
              /\ UNCHANGED <<fs, trace>>
    /\ UNCHANGED <<listing, slack_webhook, log, chunks, now, mainv, file_path, interval,
                   start_time, end_time, duration, segments, i, all_text, summary_text,
                   model_used, success, called, posted, field_updates,
                   seg_texts, replies, logspec>>

\* lines 139-176: the summary; one tick of the clock passes during the calls
SummarizeStep ==
    /\ pc = "summarize"
    /\ \E r4o \in Replies4o, r35 \in Replies35 :
         LET out == Summarize(r4o, r35)
         IN  /\ summary_text' = out.summary_text
             /\ model_used' = out.model_used
             /\ called' = called \o out.called
             /\ replies' = IF r4o.ok THEN <<r4o>> ELSE <<r4o, r35>>
    /\ now' = now + 1
    /\ trace' = Append(trace, "summary")
    /\ pc' = "save_docx"
    /\ UNCHANGED <<listing, slack_webhook, log, fs, chunks, mainv, file_path, interval,
                   start_time, end_time, duration, segments, i, all_text, exc, success,
                   posted, field_updates, seg_texts, logspec>>

\* doc.save with its exception swallowed: the call goes on to its record
SaveDocumentUnchecked ==
    /\ pc = "save_docx"
    /\ \E saved \in BOOLEAN :
         IF saved
         THEN /\ fs' = (DocxPath(file_path) :>
                          BuildDocument(file_path, now, model_used, summary_text)) @@ fs
              /\ trace' = Append(trace, "docx")
         ELSE UNCHANGED <<fs, trace>>
    /\ pc' = "log"
    /\ UNCHANGED <<listing, slack_webhook, log, chunks, now, mainv, file_path, interval,
                   start_time, end_time, duration, segments, i, all_text, summary_text,
                   model_used, exc, success, called, posted, field_updates,
                   seg_texts, replies, logspec>>

\* lines 178-210: the minutes document
SaveDocument ==
    /\ pc = "save_docx"
    /\ \E saved \in BOOLEAN :
         IF saved
         THEN /\ fs' = (DocxPath(file_path) :>
                          BuildDocument(file_path, now, model_used, summary_text)) @@ fs
              /\ trace' = Append(trace, "docx")
              /\ pc' = "log"
              /\ exc' = exc
         ELSE /\ exc' = E_io
              /\ pc' = "except"
              /\ UNCHANGED <<fs, trace>>
    /\ UNCHANGED <<listing, slack_webhook, log, chunks, now, mainv, file_path, interval,
                   start_time, end_time, duration, segments, i, all_text, summary_text,
                   model_used, success, called, posted, field_updates,
                   seg_texts, replies, logspec>>

\* lines 212-225: end time and the completion record
LogCompletion ==
    /\ pc = "log"
    /\ end_time' = now
    /\ log' = UpdateLog(log, LogRow(file_path, start_time, end_time', S_done,
                                    Len(all_text), Len(summary_text), N_unsent))
    /\ trace' = Append(trace, "log_done")
    /\ pc' = "notify"
    /\ UNCHANGED <<listing, slack_webhook, fs, chunks, now, mainv, file_path, interval,
                   start_time, duration, segments, i, all_text, summary_text, model_used,
                   exc, success, called, posted, field_updates,
                   seg_texts, replies, logspec>>

\* line 228 without its test
WebhookConfiguredAlways(url) == TRUE
\* the condition of line 228
WebhookConfigured(url) == url # <<>> /\ url # PlaceholderWebhook

\* send_to_slack returning True whatever the answer
SendToSlackAlways(outcome) == TRUE

\* send_to_slack: True exactly for status 200; any exception of the POST is
\* caught inside and reported as False
SendToSlack(outcome) == outcome = "200"

\* the text of lines 233-243: file, elapsed time, backend, excerpt
SlackMessage(path, elapsed, used, summary) ==
    [file |-> Basename(path), elapsed |-> elapsed, model_used |-> used,
     excerpt |-> Excerpt(summary)]

\* the value lines 248-258 ask update_log_field to store
StatusValue(outcome) ==
    IF outcome = "raise" THEN N_error
    ELSE IF SendToSlack(outcome) THEN N_sent ELSE N_failed

\* the field name lines 249, 253 and 258 pass
StatusField == F_slack_status

\* the notification block without its own try/except: an exception raised
\* in it reaches the handler of the call
NotifyUnguarded ==
    /\ pc = "notify"
    /\ IF WebhookConfigured(slack_webhook)
       THEN \E outcome \in NotifyOutcomes :
              IF outcome = "raise"
              THEN /\ exc' = E_io /\ pc' = "except"
                   /\ UNCHANGED <<posted, log, field_updates, trace>>
              ELSE LET upd == UpdateLogField(log, file_path, StatusField, StatusValue(outcome))
                   IN  /\ posted' = Append(posted, SlackMessage(file_path, end_time - start_time,
                                                                 model_used, summary_text))
                       /\ log' = upd.file
                       /\ field_updates' = Append(field_updates,
                              [field |-> StatusField, value |-> StatusValue(outcome),
                               ok |-> upd.ok, outcome |-> outcome,
                               before |-> log, after |-> upd.file])
                       /\ trace' = trace \o <<"post", "update">>
                       /\ exc' = exc /\ pc' = "return"
       ELSE /\ UNCHANGED <<posted, log, field_updates, trace, exc>>
            /\ pc' = "return"
    /\ UNCHANGED <<listing, slack_webhook, fs, chunks, now, mainv, file_path, interval,
                   start_time, end_time, duration, segments, i, all_text, summary_text,
                   model_used, success, called, seg_texts, replies, logspec>>

\* lines 227-258: the Slack notification and the update of the record
Notify ==
    /\ pc = "notify"
    /\ IF WebhookConfigured(slack_webhook)
       THEN \E outcome \in NotifyOutcomes :
              LET upd == UpdateLogField(log, file_path, StatusField, StatusValue(outcome))
              IN  /\ posted' = IF outcome = "raise" THEN posted
                               ELSE Append(posted, SlackMessage(file_path, end_time - start_time,
                                                                 model_used, summary_text))
                  /\ log' = upd.file
                  /\ field_updates' = Append(field_updates,
                         [field |-> StatusField, value |-> StatusValue(outcome),
                          ok |-> upd.ok, outcome |-> outcome,
                          before |-> log, after |-> upd.file])
                  /\ trace' = IF outcome = "raise" THEN Append(trace, "update")
                              ELSE trace \o <<"post", "update">>
       ELSE UNCHANGED <<posted, log, field_updates, trace>>
    /\ pc' = "return"
    /\ UNCHANGED <<listing, slack_webhook, fs, chunks, now, mainv, locals, called,
                   seg_texts, replies, logspec>>

\* line 260: return True, ...
ReturnSuccess ==
    /\ pc = "return"
    /\ success' = TRUE
    /\ pc' = "returned"
    /\ UNCHANGED <<world, mainv, file_path, interval, start_time, end_time, duration,
                   segments, i, all_text, summary_text, model_used, exc, history, logspec>>

\* status=f"error: {str(e)}" of line 275
ErrorStatusNoDetail(e) == S_error_prefix
ErrorStatus(e) == S_error_prefix \o e

\* the handler posting a message about the failure as well
HandleErrorNotifying ==
    /\ pc = "except"
    /\ end_time' = now
    /\ log' = UpdateLog(log, LogRow(file_path, IF start_time # -1 THEN start_time ELSE now,
                                    end_time', ErrorStatus(exc), 0, 0, N_unsent))
    /\ posted' = Append(posted, SlackMessage(file_path, 0, model_used, summary_text))
    /\ trace' = trace \o <<"log_error", "post">>
    /\ success' = FALSE
    /\ pc' = "returned"
    /\ UNCHANGED <<listing, slack_webhook, fs, chunks, now, mainv, file_path, interval,
                   start_time, duration, segments, i, all_text, summary_text, model_used,
                   exc, called, field_updates, seg_texts, replies, logspec>>

\* the handler returning False without its update_log
HandleErrorNoRecord ==
    /\ pc = "except"
    /\ end_time' = now
    /\ success' = FALSE
    /\ pc' = "returned"
    /\ UNCHANGED <<world, mainv, file_path, interval, start_time, duration, segments, i,
                   all_text, summary_text, model_used, exc, history, logspec>>

\* lines 262-281: the handler of every exception of the call
HandleError ==
    /\ pc = "except"
    /\ end_time' = now
    /\ log' = UpdateLog(log, LogRow(file_path, IF start_time # -1 THEN start_time ELSE now,
                                    end_time', ErrorStatus(exc), 0, 0, N_unsent))
    /\ trace' = Append(trace, "log_error")
    /\ success' = FALSE
    /\ pc' = "returned"
    /\ UNCHANGED <<listing, slack_webhook, fs, chunks, now, mainv, file_path, interval,
                   start_time, duration, segments, i, all_text, summary_text, model_used,
                   exc, called, posted, field_updates,
                   seg_texts, replies, logspec>>

----------------------------------------------------------------------------
(* main: the loop over audio_files, lines 418-427 *)

\* where the loop goes after the call for file number k of total returned ok
AfterFileStopOnFailure(k, total, ok) ==
    IF k = total \/ ~ok THEN "finished" ELSE "call"
AfterFile(k, total, ok) == IF k = total THEN "finished" ELSE "call"

NextFile ==
    /\ pc = "returned"
    /\ results' = Append(results, [file |-> file_path, success |-> success])
    /\ successful_files' = IF success THEN successful_files + 1 ELSE successful_files
    /\ pc' = AfterFile(n, Len(audio_files), success)
    /\ n' = n + 1
    /\ file_path' = <<>> /\ interval' = DefaultInterval
    /\ start_time' = -1 /\ end_time' = -1 /\ duration' = 0
    /\ segments' = <<>> /\ i' = 0 /\ all_text' = <<>> /\ summary_text' = <<>>
    /\ model_used' = <<>> /\ exc' = <<>> /\ success' = FALSE
    /\ trace' = <<>> /\ called' = <<>> /\ posted' = <<>> /\ field_updates' = <<>>
    /\ seg_texts' = <<>> /\ replies' = <<>>
    /\ UNCHANGED <<world, audio_files, logspec>>

Next ==
    \/ Initialize \/ LoadModel \/ Discover
    \/ Begin \/ TranscribeSegment \/ WriteTranscript \/ SummarizeStep \/ SaveDocument
    \/ LogCompletion \/ Notify \/ ReturnSuccess \/ HandleError
    \/ NextFile

Spec == Init /\ [][Next]_vars

\* the program has one control thread and every call returns or raises
FairSpec == Spec /\ WF_vars(Next)

----------------------------------------------------------------------------
(* SpecSeg: the segmenter applied to every duration and chunk size *)

InitSeg ==
    /\ listing = {} /\ slack_webhook = <<>> /\ log = NoFile
    /\ fs = <<>> /\ chunks = {} /\ now = 0
    /\ pc = "segmenter"
    /\ audio_files = <<>> /\ n = 0 /\ successful_files = 0 /\ results = <<>>
    /\ file_path = <<>>
    /\ interval \in 1..MaxInterval
    /\ duration \in 0..MaxDuration
    /\ start_time = -1 /\ end_time = -1
    /\ segments = <<>> /\ i = 0 /\ all_text = <<>> /\ summary_text = <<>>
    /\ model_used = <<>> /\ exc = <<>> /\ success = FALSE
    /\ trace = <<>> /\ called = <<>> /\ posted = <<>> /\ field_updates = <<>>
    /\ seg_texts = <<>> /\ replies = <<>>
    /\ last_op = NoOp /\ ops_done = 0 /\ proc = <<>>

\* line 113 on a track of the given duration
SegmentTrack ==
    /\ pc = "segmenter"
    /\ segments' = Segments(duration, interval)
    /\ pc' = "segmented"
    /\ UNCHANGED <<world, mainv, file_path, interval, start_time, end_time, duration, i,
                   all_text, summary_text, model_used, exc, success, history, logspec>>

NextSeg == SegmentTrack

SpecSeg == InitSeg /\ [][NextSeg]_vars

----------------------------------------------------------------------------
(* SpecFmt: the minutes document built from every short summary text *)

\* the code points a summary is drawn from: the two brackets, a letter,
\* a space and the line feed
FmtAlphabet == {OpenBracket, CloseBracket, 97, 32, 10}
Summaries == UNION { [1..m -> FmtAlphabet] : m \in 0..MaxSummaryLen }

InitFmt ==
    /\ listing = {} /\ slack_webhook = <<>> /\ log = NoFile
    /\ fs = <<>> /\ chunks = {} /\ now = 0
    /\ pc = "formatter"
    /\ audio_files = <<>> /\ n = 0 /\ successful_files = 0 /\ results = <<>>
    /\ file_path = Name_a_wav
    /\ interval = DefaultInterval /\ duration = 0
    /\ start_time = -1 /\ end_time = -1
    /\ segments = <<>> /\ i = 0 /\ all_text = <<>>
    /\ summary_text \in Summaries
    /\ model_used = M_gpt4o /\ exc = <<>> /\ success = FALSE
    /\ trace = <<>> /\ called = <<>> /\ posted = <<>> /\ field_updates = <<>>
    /\ seg_texts = <<>> /\ replies = <<>>
    /\ last_op = NoOp /\ ops_done = 0 /\ proc = <<>>

\* lines 179-208: the document of the summary, saved
FormatSummary ==
    /\ pc = "formatter"
    /\ fs' = (DocxPath(file_path) :>
                BuildDocument(file_path, now, model_used, summary_text)) @@ fs
    /\ pc' = "formatted"
    /\ UNCHANGED <<listing, slack_webhook, log, chunks, now, mainv, locals, history, logspec>>

NextFmt == FormatSummary

SpecFmt == InitFmt /\ [][NextFmt]_vars

----------------------------------------------------------------------------
(* SpecLog: init_log_file, update_log and update_log_field applied in any  *)
(* order to the run log, with any of the arguments below                   *)

Path_d_a_wav == <<100, 47, 97, 46, 119, 97, 118>>      \* "d/a.wav"
H_slack_upper == <<83, 76, 65, 67, 75, 36865, 20449>>  \* "SLACK" + sent
LogPaths == {Name_B_MP3, Path_d_a_wav}
LogFields == {H_slack, H_slack_upper, H_status, F_slack_status}
LogValues == {N_sent, N_failed}
\* the rows process_audio_file appends: a completion record, an error record
LogRowsOf(path) ==
    { LogRow(path, 1, 3, S_done, 12, 25, N_unsent),
      LogRow(path, 2, 2, S_error_prefix \o E_asr, 0, 0, N_unsent) }

InitLog ==
    /\ listing = {} /\ slack_webhook = <<>>
    /\ log \in InitialLogs \cup {[exists |-> TRUE, lines |-> <<LogHeader>>]}
    /\ fs = <<>> /\ chunks = {} /\ now = 0
    /\ pc = "runlog"
    /\ audio_files = <<>> /\ n = 0 /\ successful_files = 0 /\ results = <<>>
    /\ FreshLocals
    /\ last_op = NoOp /\ ops_done = 0 /\ proc = <<>>

LogFrame == <<listing, slack_webhook, fs, chunks, now, pc, mainv, locals, history, proc>>

EnsureInitialized ==
    /\ pc = "runlog" /\ ops_done < MaxLogOps
    /\ log' = InitLogFile(log)
    /\ last_op' = [NoOp EXCEPT !.op = "init_log_file", !.ok = TRUE, !.before = log]
    /\ ops_done' = ops_done + 1
    /\ UNCHANGED LogFrame

AppendRecord ==
    /\ pc = "runlog" /\ ops_done < MaxLogOps
    /\ \E path \in LogPaths : \E row \in LogRowsOf(path) :
         /\ log' = UpdateLog(log, row)
         /\ last_op' = [NoOp EXCEPT !.op = "update_log", !.key = Basename(path),
                                    !.ok = TRUE, !.before = log]
    /\ ops_done' = ops_done + 1
    /\ UNCHANGED LogFrame

UpdateField ==
    /\ pc = "runlog" /\ ops_done < MaxLogOps
    /\ \E path \in LogPaths, field \in LogFields, value \in LogValues :
         LET upd == UpdateLogField(log, path, field, value)
         IN  /\ log' = upd.file
             /\ last_op' = [op |-> "update_log_field", key |-> Basename(path),
                            field |-> field, value |-> value, ok |-> upd.ok,
                            before |-> log]
    /\ ops_done' = ops_done + 1
    /\ UNCHANGED LogFrame

NextLog == EnsureInitialized \/ AppendRecord \/ UpdateField

SpecLog == InitLog /\ [][NextLog]_vars

----------------------------------------------------------------------------
(* SpecConc: two calls of process_audio_file, for two files, running at    *)
(* the same time on one transcription_log.csv.  A call appends its record  *)
(* (update_log, one write in append mode) and, after a completion record,  *)
(* may call update_log_field, whose read of the file and whose rewrite of  *)
(* the file are two steps that steps of the other call can come between.   *)

Pipelines == {1, 2}
PipelinePath(p) == IF p = 1 THEN Name_B_MP3 ELSE Path_d_a_wav
ConcFields == {H_slack, F_slack_status}

\* a call that has not yet written to the log
IdleProc(p) ==
    [at |-> "append", path |-> PipelinePath(p), row |-> <<>>, field |-> <<>>,
     value |-> <<>>, headers |-> <<>>, rows |-> <<>>, ok |-> FALSE, raced |-> FALSE]

InitConc ==
    /\ listing = {} /\ slack_webhook = RealWebhook
    /\ log \in {[exists |-> TRUE, lines |-> <<LogHeader>>],
                [exists |-> TRUE, lines |-> <<LogHeader, PriorRow>>]}
    /\ fs = <<>> /\ chunks = {} /\ now = 0
    /\ pc = "pipelines"
    /\ audio_files = <<>> /\ n = 0 /\ successful_files = 0 /\ results = <<>>
    /\ FreshLocals
    /\ last_op = NoOp /\ ops_done = 0
    /\ proc = [p \in Pipelines |-> IdleProc(p)]

ConcFrame == <<listing, slack_webhook, fs, chunks, now, pc, mainv, locals, history,
               last_op, ops_done>>

\* the other calls that hold rows read before this write are now behind the file
MarkRaced(p, procs) ==
    [q \in Pipelines |->
        IF q # p /\ procs[q].at = "write" THEN [procs[q] EXCEPT !.raced = TRUE]
        ELSE procs[q]]

\* update_log of lines 217-225 or 271-279; after an error record the call returns
ConcAppend(p) ==
    /\ pc = "pipelines" /\ proc[p].at = "append"
    /\ \E row \in LogRowsOf(proc[p].path), notifies \in BOOLEAN :
         /\ log' = UpdateLog(log, row)
         /\ proc' = MarkRaced(p, [proc EXCEPT ![p].row = row,
                                              ![p].at = IF row[4] = S_done /\ notifies
                                                        THEN "read" ELSE "done"])
    /\ UNCHANGED ConcFrame

\* the first half of update_log_field
ConcRead(p) ==
    /\ pc = "pipelines" /\ proc[p].at = "read"
    /\ \E field \in ConcFields, value \in LogValues :
         LET r == ReadRows(log, proc[p].path, field, value)
         IN  proc' = [proc EXCEPT ![p].field = field, ![p].value = value,
                                  ![p].headers = r.headers, ![p].rows = r.rows,
                                  ![p].at = IF r.found THEN "write" ELSE "done"]
    /\ UNCHANGED <<log, ConcFrame>>

\* the second half of update_log_field
ConcWrite(p) ==
    /\ pc = "pipelines" /\ proc[p].at = "write"
    /\ log' = WriteRows(proc[p].headers, proc[p].rows)
    /\ proc' = MarkRaced(p, [proc EXCEPT ![p].ok = TRUE, ![p].at = "done"])
    /\ UNCHANGED ConcFrame

NextConc == \E p \in Pipelines : ConcAppend(p) \/ ConcRead(p) \/ ConcWrite(p)

SpecConc == InitConc /\ [][NextConc]_vars

----------------------------------------------------------------------------
(* Properties *)

LastRow(f) == f.lines[Len(f.lines)]

\* sub in s
Contains(s, sub) ==
    \E k \in 0..(Len(s) - Len(sub)) : SubSeq(s, k + 1, k + Len(sub)) = sub

Wrote(what) == \E k \in 1..Len(trace) : trace[k] = what

\* C1: when model.transcribe fails on a segment, the call has written neither
\* the transcript nor the minutes document, its handler appends one record
\* for the file whose status contains the error description and reports
\* failure, and the loop of main goes on to the next input file.
C1_TranscriptionFailureIsolated ==
    /\ [](exc = E_asr => ~Wrote("txt") /\ ~Wrote("docx"))
    /\ [][ (pc = "except" /\ exc = E_asr) =>
             /\ fs' = fs
             /\ log'.lines = Append(log.lines, LastRow(log'))
             /\ LastRow(log')[1] = Basename(file_path)
             /\ Contains(LastRow(log')[4], exc)
             /\ pc' = "returned" /\ ~success' ]_vars
    /\ [][ (pc = "returned" /\ exc = E_asr /\ n < Len(audio_files)) =>
             (pc' = "call" /\ n' = n + 1) ]_vars

\* the second file is being transcribed after the first failed in model.transcribe
C1_Witness ==
    /\ pc = "segment" /\ n = 2 /\ Len(results) = 1 /\ ~results[1].success
    /\ \E k \in 2..Len(log.lines) :
         log.lines[k][1] = audio_files[1] /\ Contains(log.lines[k][4], E_asr)

\* C2: the transient file of a segment is deleted on every exit path of the
\* segment's processing, so no chunk_<i>.mp3 exists between two segments nor
\* once process_audio_file has returned.
C2_TransientFileDeleted == chunks = {}

C4_NotificationStatusRecorded ==
    (pc = "returned" /\ success /\ WebhookConfigured(slack_webhook)) =>
        /\ Len(field_updates) = 1
        /\ LastRow(log)[1] = Basename(file_path)
        /\ LastRow(log)[7] = CASE field_updates[1].outcome = "200" -> N_sent
                               [] field_updates[1].outcome = "raise" -> N_error
                               [] OTHER -> N_failed

\* C5: whatever fails in whichever file (decode, transcription of a segment,
\* an output write), the files are processed in sorted-name order, the loop
\* goes from every returned call to the next file, and once the loop has
\* started it eventually finishes with a result for every discovered file.
C5_EveryFileProcessed ==
    /\ [](\A k \in 1..(Len(audio_files) - 1) : StrLess(audio_files[k], audio_files[k + 1]))
    /\ [](/\ Len(results) <= Len(audio_files)
          /\ \A k \in 1..Len(results) : results[k].file = audio_files[k])
    /\ [][ (pc = "returned" /\ n < Len(audio_files)) => pc' = "call" ]_vars
    /\ (pc = "call") ~> (pc = "finished" /\ Len(results) = Len(audio_files))

\* the batch finished after its first file failed and its second succeeded
C5_Witness ==
    /\ pc = "finished" /\ Len(results) = 2
    /\ ~results[1].success /\ results[2].success

\* C6: update_log_field with a field name that matches a header (whatever
\* the case of its letters) returns True and changes only the named column
\* of the rows whose key is the given one: the header row, the number and
\* order of the rows, the other rows and the other fields stay as they were.
C6_UpdateFrame ==
    LET b == last_op.before.lines
        named == IF b = <<>> THEN {}
                 ELSE {j \in 1..Len(b[1]) : Lower(b[1][j]) = Lower(last_op.field)}
    IN  (last_op.op = "update_log_field" /\ named # {}) =>
            /\ last_op.ok
            /\ Len(log.lines) = Len(b)
            /\ log.lines[1] = b[1]
            /\ \A k \in 2..Len(b) :
                 /\ Len(log.lines[k]) = Len(b[k])
                 /\ \A j \in 1..Len(b[k]) :
                      log.lines[k][j] =
                          IF b[k][1] = last_op.key /\ j \in named THEN last_op.value
                          ELSE b[k][j]

\* an update by the upper-case header name set the status of one row and
\* left a row with another key in the store
C6_Witness ==
    /\ last_op.op = "update_log_field" /\ last_op.field = H_slack_upper /\ last_op.ok
    /\ \E k, m \in 2..Len(log.lines) :
         /\ log.lines[k][1] = last_op.key
         /\ log.lines[k][7] = last_op.value
         /\ last_op.before.lines[k][7] = N_unsent
         /\ log.lines[m][1] # last_op.key

\* C7: for a track of duration D and a chunk size C > 0 the segments are, in
\* index order, [i*C, min((i+1)*C, D)): they partition [0, D) with no gap and
\* no overlap, all but the last last C, and the last lasts D mod C when that
\* is not zero.
C7_SegmentsPartition ==
    pc = "segmented" =>
        LET D == duration
            C == interval
            m == Len(segments)
            Dur(k) == segments[k].stop - segments[k].start
        IN  /\ m = (D + C - 1) \div C
            /\ \A k \in 1..m : /\ segments[k].start = (k - 1) * C
                               /\ segments[k].stop = Min(k * C, D)
                               /\ Dur(k) > 0
            /\ m > 0 => segments[1].start = 0 /\ segments[m].stop = D
            /\ \A k \in 1..(m - 1) : /\ segments[k].stop = segments[k + 1].start
                                     /\ Dur(k) = C
            /\ m > 0 => Dur(m) = IF D % C # 0 THEN D % C ELSE C

\* a track of 12 in chunks of 5 gave segments of 5, 5 and 2
C7_Witness ==
    /\ pc = "segmented" /\ duration = 12 /\ interval = 5
    /\ segments = << [start |-> 0, stop |-> 5], [start |-> 5, stop |-> 10],
                     [start |-> 10, stop |-> 12] >>

\* str.join
RECURSIVE Join(_, _)
Join(texts, sep) ==
    IF texts = <<>> THEN <<>>
    ELSE IF Len(texts) = 1 THEN texts[1]
    ELSE texts[1] \o sep \o Join(Tail(texts), sep)

\* every text followed by the separator
RECURSIVE Terminated(_, _)
Terminated(texts, sep) ==
    IF texts = <<>> THEN <<>> ELSE texts[1] \o sep \o Terminated(Tail(texts), sep)

\* C8 as stated: the transcript written is the segment texts in index order
\* joined by the paragraph separator, which appears only between two
\* consecutive texts, and the recorded length is the length of that text.
C8_TranscriptIsJoined ==
    (Wrote("txt") /\ Len(seg_texts) >= 1) =>
        /\ fs[TxtPath(file_path)] = Join(seg_texts, ParagraphSep)
        /\ Wrote("log_done") =>
             LastRow(log)[5] = Str(Len(Join(seg_texts, ParagraphSep)))

\* C8 amended: the transcript written is the segment texts in index order,
\* each followed by the paragraph separator (one also follows the last
\* text), and the recorded length is the length of that text.
C8_TranscriptIsTerminated ==
    (Wrote("txt") /\ Len(seg_texts) >= 1) =>
        /\ fs[TxtPath(file_path)] = Terminated(seg_texts, ParagraphSep)
        /\ Wrote("log_done") =>
             /\ LastRow(log)[1] = Basename(file_path)
             /\ LastRow(log)[5] = Str(Len(fs[TxtPath(file_path)]))

\* the record of a file of two segments with different texts is written
C8_Witness ==
    /\ Wrote("log_done") /\ Len(seg_texts) = 2 /\ seg_texts[1] # seg_texts[2]
    /\ seg_texts[2] # <<>>

DegradedBody == << << [text |-> DegradedMessage, bold |-> FALSE] >> >>

OutageOutcome ==
    /\ success
    /\ Wrote("txt") /\ Wrote("docx") /\ Wrote("log_done") /\ ~Wrote("log_error")
    /\ TxtPath(file_path) \in DOMAIN fs
    /\ DocxPath(file_path) \in DOMAIN fs
    /\ fs[DocxPath(file_path)].body = DegradedBody
    /\ LastRow(log)[1] = Basename(file_path)
    /\ LastRow(log)[4] = S_done

C10_FieldNotFoundIsNonFatal ==
    \A k \in 1..Len(field_updates) :
        LET u == field_updates[k]
        IN  (/\ u.before.lines # <<>>
             /\ \A j \in 1..Len(u.before.lines[1]) :
                    Lower(u.before.lines[1][j]) # Lower(u.field)) =>
                /\ ~u.ok
                /\ u.after = u.before
                /\ log = u.after
                /\ exc = <<>>
                /\ pc \in {"return", "returned"}
                /\ pc = "returned" => success

\* a call returned success after its update_log_field had returned False
C10_Witness ==
    /\ pc = "returned" /\ success
    /\ Len(field_updates) = 1 /\ ~field_updates[1].ok
    /\ field_updates[1].field = F_slack_status

\* C11: init_log_file creates the store holding exactly the header row when
\* the store is absent, and leaves an existing store (whatever its rows) as
\* it is; applied after any appends and field updates, and again after
\* itself, it loses no row.
C11_InitLogFileIdempotent ==
    /\ last_op.op = "init_log_file" =>
         /\ log.exists
         /\ log = IF last_op.before.exists THEN last_op.before
                  ELSE [exists |-> TRUE, lines |-> <<LogHeader>>]
         /\ \A k \in 1..Len(last_op.before.lines) : log.lines[k] = last_op.before.lines[k]
    /\ InitLogFile(InitLogFile(log)) = InitLogFile(log)

\* init_log_file was applied to a store that held the header and two rows
C11_Witness ==
    /\ last_op.op = "init_log_file" /\ last_op.before.exists
    /\ Len(last_op.before.lines) = 3 /\ log = last_op.before

\* C12: when no webhook address is set, no file's call posts a message or
\* asks for an update of the notification field, the call steps from the
\* completion record straight to its return, and the record of the file
\* keeps the not-sent value it was appended with.
C12_NoWebhookNoNotification ==
    /\ [](slack_webhook = <<>> =>
            /\ posted = <<>> /\ field_updates = <<>>
            /\ ~Wrote("post") /\ ~Wrote("update")
            /\ (Wrote("log_done") =>
                  /\ LastRow(log)[1] = Basename(file_path)
                  /\ LastRow(log)[7] = N_unsent))
    /\ [][ (slack_webhook = <<>> /\ pc = "notify") => (log' = log /\ pc' = "return") ]_vars

\* with no webhook address the second file of the batch returned success
C12_Witness ==
    /\ slack_webhook = <<>> /\ pc = "returned" /\ success /\ n = 2
    /\ Wrote("log_done") /\ LastRow(log)[7] = N_unsent

\* the answers with a status of the 200 range
Is2xx(outcome) == outcome \in {"200", "204"}

\* C13 as stated: send_to_slack returns True exactly when the webhook
\* answered with a status of the 200 range; for every other status and for
\* a transport failure it returns False, never raising.
C13_SuccessIs2xx ==
    \A k \in 1..Len(field_updates) :
        LET u == field_updates[k]
        IN  u.outcome # "raise" =>
                u.value = IF Is2xx(u.outcome) THEN N_sent ELSE N_failed

\* C13 amended: send_to_slack returns True exactly when the webhook
\* answered with status 200; for every other status (those of the 200 range
\* included) and for a transport failure it returns False, never raising:
\* the caller takes its success branch or its failure branch, not its
\* exception branch, and one message was posted.
C13_SuccessIs200 ==
    \A k \in 1..Len(field_updates) :
        LET u == field_updates[k]
        IN  u.outcome # "raise" =>
                /\ u.value = IF u.outcome = "200" THEN N_sent ELSE N_failed
                /\ u.value # N_error
                /\ Len(posted) = 1
                /\ exc = <<>>

\* the webhook answered 204 and the caller took its failure branch
C13_Witness ==
    /\ Len(field_updates) = 1 /\ field_updates[1].outcome = "204"
    /\ field_updates[1].value = N_failed /\ pc = "returned" /\ success

\* position (from 1) of the first closing bracket of a line that has one
FirstClose(line) ==
    CHOOSE e \in 1..Len(line) :
        line[e] = CloseBracket /\ \A j \in 1..(e - 1) : line[j] # CloseBracket

HeadingLine(line) ==
    /\ line # <<>> /\ line[1] = OpenBracket
    /\ \E e \in 1..Len(line) : line[e] = CloseBracket

\* the rule as stated: a heading line gives the bold span and then a plain
\* run holding the remainder
RuleAsStated(line, para) ==
    IF IsBlank(line) THEN para = <<>>
    ELSE IF HeadingLine(line)
    THEN para = << [text |-> SubSeq(line, 1, FirstClose(line)), bold |-> TRUE],
                   [text |-> SubSeq(line, FirstClose(line) + 1, Len(line)), bold |-> FALSE] >>
    ELSE para = << [text |-> line, bold |-> FALSE] >>

\* the rule with the plain run only for a remainder that is not empty
RuleAmended(line, para) ==
    IF IsBlank(line) THEN para = <<>>
    ELSE IF HeadingLine(line)
    THEN IF FirstClose(line) < Len(line)
         THEN para = << [text |-> SubSeq(line, 1, FirstClose(line)), bold |-> TRUE],
                        [text |-> SubSeq(line, FirstClose(line) + 1, Len(line)),
                         bold |-> FALSE] >>
         ELSE para = << [text |-> line, bold |-> TRUE] >>
    ELSE para = << [text |-> line, bold |-> FALSE] >>

\* C14 as stated: the body of the minutes document has one paragraph per
\* line of the summary; a blank line gives a paragraph with no run; a line
\* that begins with the opening bracket and contains a closing bracket gives
\* a bold run from the line start through the first closing bracket followed
\* by a plain run holding the remainder; every other line gives one plain
\* run equal to the line.
C14_LineRuleTwoRuns ==
    pc = "formatted" =>
        LET lines == SplitLines(summary_text)
            body == fs[DocxPath(file_path)].body
        IN  /\ Len(body) = Len(lines)
            /\ \A k \in 1..Len(lines) : RuleAsStated(lines[k], body[k])

\* C14 amended: the same, except that the plain run follows the bold run
\* only when the remainder is not empty; a line that ends with its first
\* closing bracket gives the bold run alone.
C14_LineRule ==
    pc = "formatted" =>
        LET lines == SplitLines(summary_text)
            body == fs[DocxPath(file_path)].body
        IN  /\ Len(body) = Len(lines)
            /\ \A k \in 1..Len(lines) : RuleAmended(lines[k], body[k])

\* a heading line with a remainder was formatted
C14_Witness ==
    /\ pc = "formatted"
    /\ summary_text = <<OpenBracket, 97, CloseBracket, 97>>
    /\ fs[DocxPath(file_path)].body =
         << << [text |-> <<OpenBracket, 97, CloseBracket>>, bold |-> TRUE],
               [text |-> <<97>>, bold |-> FALSE] >> >>

\* position of the first occurrence of what in the trace of the call, 0 if none
TracePos(what) ==
    IF Wrote(what) THEN CHOOSE k \in 1..Len(trace) :
                            trace[k] = what /\ \A j \in 1..(k - 1) : trace[j] # what
    ELSE 0

\* the number of rows appended by the call in progress
AppendedByCall == IF Wrote("log_done") \/ Wrote("log_error") THEN 1 ELSE 0

\* the row appended in this run for the k-th file whose call has returned
RowOfResult(k) == log.lines[Len(log.lines) - AppendedByCall - Len(results) + k]

\* C15: a call appends its record only after it has written both the
\* transcript and the minutes document (then with the completion status) or
\* after an exception has ended it (then with an error status); no row
\* appended in this run has the completion status unless the transcript and
\* the minutes document of its file were written in this run.
C15_RecordAfterOutputs ==
    /\ [](Wrote("log_done") =>
            /\ 0 < TracePos("txt") /\ TracePos("txt") < TracePos("docx")
            /\ TracePos("docx") < TracePos("log_done")
            /\ TxtPath(file_path) \in DOMAIN fs /\ DocxPath(file_path) \in DOMAIN fs
            /\ ~Wrote("log_error") /\ exc = <<>>
            /\ LastRow(log)[1] = Basename(file_path) /\ LastRow(log)[4] = S_done)
    /\ [](Wrote("log_error") =>
            /\ exc # <<>> /\ ~Wrote("log_done")
            /\ LastRow(log)[1] = Basename(file_path)
            /\ LastRow(log)[4] = S_error_prefix \o exc)
    /\ [](\A k \in 1..Len(results) :
            /\ RowOfResult(k)[1] = Basename(results[k].file)
            /\ RowOfResult(k)[4] = S_done =>
                 /\ results[k].success
                 /\ TxtPath(results[k].file) \in DOMAIN fs
                 /\ DocxPath(results[k].file) \in DOMAIN fs
            /\ RowOfResult(k)[4] # S_done =>
                 /\ ~results[k].success
                 /\ Contains(RowOfResult(k)[4], S_error_prefix))
    /\ [][ (pc # "initialize" /\ Len(log'.lines) # Len(log.lines)) =>
             /\ Len(log'.lines) = Len(log.lines) + 1
             /\ \/ pc = "log" /\ Wrote("txt") /\ Wrote("docx") /\ exc = <<>>
                \/ pc = "except" /\ exc # <<>> ]_vars

\* the completion record of the second file is appended, after the first
\* file failed while its minutes document was saved
C15_Witness ==
    /\ Wrote("log_done") /\ pc = "notify" /\ Len(results) = 1
    /\ ~results[1].success /\ RowOfResult(1)[4] = S_error_prefix \o E_io
    /\ TxtPath(results[1].file) \in DOMAIN fs
    /\ DocxPath(results[1].file) \notin DOMAIN fs

\* the notification of the call in progress was asked for and did not succeed
NotifyFailed ==
    /\ Len(field_updates) = 1
    /\ field_updates[1].outcome # "200"

\* C16: a notification that fails (another status than 200, a transport
\* failure, an exception in the notification block) leaves the transcript
\* and the minutes document in place, leaves the record's start time, end
\* time, status and the two lengths as they were appended, appends no
\* second record for the file, and the call still returns success, which
\* main counts.
C16_NotifyFailureKeepsOutputs ==
    /\ [][ pc = "notify" =>
             /\ fs' = fs
             /\ Len(log'.lines) = Len(log.lines)
             /\ \A k \in 1..Len(log.lines) : \A j \in 1..6 :
                    log'.lines[k][j] = log.lines[k][j]
             /\ exc' = <<>> /\ pc' = "return" ]_vars
    /\ [](NotifyFailed =>
            /\ pc \in {"return", "returned"}
            /\ pc = "returned" => success
            /\ TxtPath(file_path) \in DOMAIN fs /\ DocxPath(file_path) \in DOMAIN fs
            /\ Wrote("log_done") /\ ~Wrote("log_error")
            /\ LastRow(log)[1] = Basename(file_path)
            /\ LastRow(log)[4] = S_done
            /\ LastRow(log)[5] = Str(Len(all_text))
            /\ LastRow(log)[6] = Str(Len(summary_text)))
    /\ [][ (pc = "returned" /\ NotifyFailed) =>
             /\ results'[Len(results')] = [file |-> file_path, success |-> TRUE]
             /\ successful_files' = successful_files + 1
             /\ log' = log ]_vars

\* a call returned success after an exception in its notification block
C16_Witness ==
    /\ pc = "returned" /\ success /\ NotifyFailed
    /\ field_updates[1].outcome = "raise" /\ posted = <<>>
    /\ LastRow(log)[4] = S_done

\* C17: no two rows of transcription_log.csv have the same key (first
\* field, the basename of the source file), in every state reached by batch
\* runs over one directory.
C17_KeysUnique ==
    \A j, k \in 2..Len(log.lines) :
        j # k => log.lines[j][1] # log.lines[k][1]

\* how many times what is in the trace of the call
RECURSIVE Count(_, _)
Count(s, what) ==
    IF s = <<>> THEN 0
    ELSE (IF Head(s) = what THEN 1 ELSE 0) + Count(Tail(s), what)

RecordsOfCall == Count(trace, "log_done") + Count(trace, "log_error")

WriteKept(p) ==
    \E k \in 2..Len(log.lines) :
        /\ \A j \in 1..6 : log.lines[k][j] = proc[p].row[j]
        /\ log.lines[k][7] = IF proc[p].ok THEN proc[p].value ELSE proc[p].row[7]

BothDone == \A p \in Pipelines : proc[p].at = "done"

\* C19: update_log_field reads the whole file and later rewrites the whole
\* file.  Split at that point, the two halves applied back to back are the
\* whole call; when no write of the other call comes between the read and
\* the rewrite of a call, the records and field values of both calls are in
\* the final file; a write of the other call that does come between them
\* (the witness) is missing from the final file.
C19_SerializedLosesNothing ==
    /\ \A p \in Pipelines : \A field \in ConcFields, value \in LogValues :
         LET r == ReadRows(log, proc[p].path, field, value)
             whole == UpdateLogField(log, proc[p].path, field, value)
         IN  /\ whole.ok = r.found
             /\ whole.file = IF r.found THEN WriteRows(r.headers, r.rows) ELSE log
    /\ (BothDone /\ \A p \in Pipelines : ~proc[p].raced) =>
           \A p \in Pipelines : WriteKept(p)
    /\ (BothDone /\ \E p \in Pipelines : ~WriteKept(p)) =>
           \E q \in Pipelines : proc[q].raced /\ proc[q].ok

\* the record call 2 appended between the read and the rewrite of call 1 is
\* not in the file once both calls are done
C19_Witness ==
    /\ BothDone /\ proc[1].raced /\ proc[1].ok
    /\ WriteKept(1) /\ ~WriteKept(2)
    /\ \A k \in 2..Len(log.lines) : log.lines[k][1] # Basename(proc[2].path)

\* what C20 says of send_to_slack: at most one message per call, about the
\* file of the call, posted after the completion record, none in a call
\* that ended in its handler
NotifierAfterCompletion ==
    /\ Len(posted) <= 1
    /\ \A k \in 1..Len(posted) : posted[k].file = Basename(file_path)
    /\ posted # <<>> =>
         /\ Wrote("log_done") /\ TracePos("log_done") < TracePos("post")
         /\ Count(trace, "post") = 1
    /\ Wrote("log_error") => (posted = <<>> /\ ~Wrote("post") /\ field_updates = <<>>)

====
